---- MODULE Spec2Model ----
(***************************************************************************)
(* Model of the auto_met2 briefing collector: the Briefing aggregate, the  *)
(* five providers' collect methods and the two entry points (main.py and   *)
(* run_metself_brief.py).  A run is strictly sequential; pc is the         *)
(* position of the single thread of control.                               *)
(*                                                                         *)
(* The Briefing is the one of "auto met brief"/collector/models.py, which  *)
(* has the texts list the providers append TextAssets to.  A collect call  *)
(* keeps its locals until it returns; attempts, requests, driver and pre   *)
(* record what the running call has done and are reset with them.          *)
(*                                                                         *)
(* A datetime is a record [min, sec, us]: min counts the minutes since     *)
(* 2025-01-01T00:00Z (so it carries date, hour and minute), sec and us are *)
(* the second and microsecond fields.  The clocks drawn by Init lie in     *)
(* January 2025, which is the range Ymd formats.                           *)
(*                                                                         *)
(* The remote sources, the browser and the file writes are the             *)
(* environment: every request, page step and write draws its outcome with  *)
(* \E.  Creating the output directories (mkdir with exist_ok) is taken to  *)
(* succeed.                                                                *)
(***************************************************************************)
EXTENDS Integers, Sequences, FiniteSets, TLC

\* ---------------------------------------------------------------- bounds
MaxSteps == 3          \* largest InfraredProvider.max_steps drawn by Init
MaxCharts == 2         \* SurfacePressureProvider.max_charts of the run
MaxDrift == 32         \* minutes the wall clock advances during one probe

\* the step_minutes and the clock readings the probe is checked with
StepChoices == {1, 7, 15, 60}
ClockChoices ==
    { [min |-> 1440 + 12 * 60 + 37, sec |-> 42, us |-> 5],
      [min |-> 1440 + 5,            sec |-> 0,  us |-> 0] }
\* the clock reading of a whole run of main.py
RunClock == [min |-> 1440 + 12 * 60 + 37, sec |-> 42, us |-> 5]

\* the exceptions the environment can raise, as the text str(e) gives
Timeout == "timed out"
ServerError == "500 Server Error"
NetErrors == {Timeout, ServerError}
WriteError == "No space left on device"
DriverError == "geckodriver unavailable"
PageError == "TimeoutException"

None == "None"

VARIABLES
    entry,        \* which script runs: "main" or "run_metself_brief"
    pc,           \* position of the thread of control
    clock,        \* what datetime.now(timezone.utc) returns
    briefing,     \* the Briefing: [generated_at_utc, charts, texts, notes]
    ir,           \* the InfraredProvider instance: [name, step_minutes, max_steps]
    now_utc,      \* local of the running collect
    t,            \* InfraredProvider.collect: the candidate timestamp
    n,            \* InfraredProvider.collect: iterations of the for loop done
    last_error,   \* InfraredProvider.collect: last_error
    attempts,     \* the requests session.get has been asked for in this call
    i,            \* SurfacePressureProvider.collect: loop index
    downloaded,   \* SurfacePressureProvider.collect: downloaded
    requests,     \* image requests issued by the running collect
    driver,       \* events of the browser driver of the running collect
    stage,        \* position inside the try block of a browser provider
    sg,           \* _safe_get: [k: iterations done, last_err, navs: driver.get outcomes]
    files,        \* paths whose bytes were written under the output directory
    pre,          \* the Briefing as it was when the running collect was called
    invoked,      \* names of the providers whose collect has been called
    exc,          \* the exception that left the entry point, or None
    summary       \* the lines the entry point has printed

vars == << entry, pc, clock, briefing, ir, now_utc, t, n, last_error, attempts,
           i, downloaded, requests, driver, stage, sg, files, pre, invoked,
           exc, summary >>

irLocals == << t, n, last_error, attempts >>
spLocals == << i, downloaded, requests >>
brLocals == << driver, stage, sg >>

\* ------------------------------------------------------------- datetime
NoTime == [min |-> 0, sec |-> 0, us |-> 0]

Pad2(k) == IF k < 10 THEN "0" \o ToString(k) ELSE ToString(k)

\* strftime("%Y%m%d")
Ymd(d) == "202501" \o Pad2((d.min \div 1440) + 1)

\* strftime("%H%M")
Hm(d) == Pad2((d.min \div 60) % 24) \o Pad2(d.min % 60)

\* strftime("%Y%m%d_%H%M%S")
YmdHms(d) == Ymd(d) \o "_" \o Hm(d) \o Pad2(d.sec)

\* the six digits of a microsecond field
Pad6(k) ==
    (IF k < 10 THEN "00000" ELSE IF k < 100 THEN "0000" ELSE IF k < 1000 THEN "000"
     ELSE IF k < 10000 THEN "00" ELSE IF k < 100000 THEN "0" ELSE "") \o ToString(k)

\* datetime.isoformat(sep) of an aware UTC datetime
IsoFormatSep(d, sep) ==
    "2025-01-" \o Pad2((d.min \div 1440) + 1) \o sep
      \o Pad2((d.min \div 60) % 24) \o ":" \o Pad2(d.min % 60) \o ":" \o Pad2(d.sec)
      \o (IF d.us = 0 THEN "" ELSE "." \o Pad6(d.us))
      \o "+00:00"

\* datetime.isoformat()
IsoFormat(d) == IsoFormatSep(d, "T")

\* str(datetime), which an f-string prints
StrDatetime(d) == IsoFormatSep(d, " ")

Minute(d) == d.min % 60

\* d.replace(minute=m, second=0, microsecond=0)
ReplaceMinute(d, m) == [min |-> (d.min \div 60) * 60 + m, sec |-> 0, us |-> 0]

\* d - timedelta(minutes=k)
MinusMinutes(d, k) == [d EXCEPT !.min = @ - k]

FloorToStepCeil(now, step) ==
    ReplaceMinute(now, ((Minute(now) + step - 1) \div step) * step)

\* infared.py 29-30: round down to the step grid
FloorToStep(now, step) ==
    ReplaceMinute(now, (Minute(now) \div step) * step)

\* --------------------------------------------------------------- models
ChartAsset(name, kind, url, fetched, path, ctype, source, extras) ==
    [ name |-> name, kind |-> kind, original_url |-> url,
      fetched_at_utc |-> fetched, local_path |-> path,
      content_type |-> ctype, source |-> source, extras |-> extras ]

TextAsset(name, kind, generated, path, source, extras) ==
    [ name |-> name, kind |-> kind, generated_at_utc |-> generated,
      local_path |-> path, source |-> source, extras |-> extras ]

Briefing(generated) ==
    [ generated_at_utc |-> generated, charts |-> <<>>, texts |-> <<>>,
      notes |-> <<>> ]

AppendChart(b, a) == [b EXCEPT !.charts = Append(@, a)]
AppendText(b, a) == [b EXCEPT !.texts = Append(@, a)]
AppendNote(b, s) == [b EXCEPT !.notes = Append(@, s)]

\* infared.py 20
DefaultStepMinutes == 15

InfraredProvider(step, max_steps) ==
    [ name |-> "met_ie_infrared",
      base_url |-> "https://www.met.ie/images/satellite",
      step_minutes |-> step, max_steps |-> max_steps ]

\* ----------------------------------------------------------------- Init
\* main.py 19 constructs InfraredProvider() with its defaults; the model bounds
\* the default max_steps (32) by MaxSteps
Init ==
    /\ entry \in {"main", "run_metself_brief"}
    /\ pc = "start"
    /\ clock = RunClock
    /\ briefing = Briefing(NoTime)
    /\ ir = InfraredProvider(DefaultStepMinutes, MaxSteps)
    /\ now_utc = NoTime
    /\ t = NoTime
    /\ n = 0
    /\ last_error = None
    /\ attempts = <<>>
    /\ i = 0
    /\ downloaded = 0
    /\ requests = <<>>
    /\ driver = <<>>
    /\ stage = 0
    /\ sg = [k |-> 0, last_err |-> None, navs |-> <<>>]
    /\ files = {}
    /\ pre = Briefing(NoTime)
    /\ invoked = <<>>
    /\ exc = None
    /\ summary = <<>>

\* main.py 15-19, run_metself_brief.py 12-19: the Briefing is constructed
Start ==
    /\ pc = "start"
    /\ briefing' = Briefing(clock)
    /\ pc' = IF entry = "main" THEN "ir_begin" ELSE "msb_begin"
    /\ UNCHANGED << entry, clock, ir, now_utc, irLocals, spLocals, brLocals,
                    files, pre, invoked, exc, summary >>

\* -------------------------------------------------- InfraredProvider.collect
IrUrl(p, d) == p.base_url \o "/web17_sat_irl_ir_" \o Ymd(d) \o Hm(d) \o ".jpeg"

IrSavePath(d) ==
    "out/charts/satellite/ireland_ir_" \o Ymd(d) \o "_" \o Hm(d) \o ".jpeg"

IrAsset(p, d, now) ==
    ChartAsset("Ireland IR Satellite " \o Hm(d) \o "Z (Latest Found)",
               "satellite", IrUrl(p, d), now, None, None, p.name,
               [candidate_time_utc |-> IsoFormat(d)])

IrLoopCountOneMore(p) == p.max_steps + 2

\* infared.py 36: range(self.max_steps + 1)
IrLoopCount(p) == p.max_steps + 1

IrExhaustionNoteStepsPlusOne(p, err) ==
    p.name \o ": no IR image found in last "
       \o ToString((p.max_steps + 1) * p.step_minutes) \o " minutes"
       \o (IF err # None THEN " (last error: " \o err \o ")" ELSE "")

\* infared.py 72-73
IrExhaustionNote(p, err) ==
    p.name \o ": no IR image found in last "
       \o ToString(p.max_steps * p.step_minutes) \o " minutes"
       \o (IF err # None THEN " (last error: " \o err \o ")" ELSE "")

\* infared.py 24-34
IrBegin ==
    /\ pc = "ir_begin"
    /\ invoked' = Append(invoked, ir.name)
    /\ pre' = briefing
    /\ now_utc' = clock
    /\ t' = FloorToStep(clock, ir.step_minutes)
    /\ last_error' = None
    /\ n' = 0
    /\ attempts' = <<>>
    /\ pc' = "ir_loop"
    /\ UNCHANGED << entry, clock, briefing, ir, spLocals, brLocals, files, exc,
                    summary >>

IrAttempt(outcome) == [t |-> t, url |-> IrUrl(ir, t), outcome |-> outcome]

IrMissRecomputesFromClock ==
    /\ pc = "ir_loop"
    /\ n < IrLoopCount(ir)
    /\ attempts' = Append(attempts, IrAttempt("404"))
    /\ t' = MinusMinutes(FloorToStep(clock, ir.step_minutes),
                         (n + 1) * ir.step_minutes)
    /\ n' = n + 1
    /\ UNCHANGED << entry, pc, clock, briefing, ir, now_utc, last_error,
                    spLocals, brLocals, files, pre, invoked, exc, summary >>

IrMissClearsError ==
    /\ pc = "ir_loop"
    /\ n < IrLoopCount(ir)
    /\ attempts' = Append(attempts, IrAttempt("404"))
    /\ t' = MinusMinutes(t, ir.step_minutes)
    /\ n' = n + 1
    /\ last_error' = None
    /\ UNCHANGED << entry, pc, clock, briefing, ir, now_utc,
                    spLocals, brLocals, files, pre, invoked, exc, summary >>

\* infared.py 51-54: the response is a 404
IrMiss ==
    /\ pc = "ir_loop"
    /\ n < IrLoopCount(ir)
    /\ attempts' = Append(attempts, IrAttempt("404"))
    /\ t' = MinusMinutes(t, ir.step_minutes)
    /\ n' = n + 1
    /\ UNCHANGED << entry, pc, clock, briefing, ir, now_utc, last_error,
                    spLocals, brLocals, files, pre, invoked, exc, summary >>

IrErrorAppendsNote ==
    /\ pc = "ir_loop"
    /\ n < IrLoopCount(ir)
    /\ \E e \in NetErrors :
          /\ attempts' = Append(attempts, IrAttempt(e))
          /\ last_error' = e
          /\ briefing' = AppendNote(briefing, ir.name \o ": " \o e)
    /\ t' = MinusMinutes(t, ir.step_minutes)
    /\ n' = n + 1
    /\ UNCHANGED << entry, pc, clock, ir, now_utc,
                    spLocals, brLocals, files, pre, invoked, exc, summary >>

\* infared.py 51, 56, 67-69: session.get or raise_for_status raises
IrError ==
    /\ pc = "ir_loop"
    /\ n < IrLoopCount(ir)
    /\ \E e \in NetErrors :
          /\ attempts' = Append(attempts, IrAttempt(e))
          /\ last_error' = e
    /\ t' = MinusMinutes(t, ir.step_minutes)
    /\ n' = n + 1
    /\ UNCHANGED << entry, pc, clock, briefing, ir, now_utc,
                    spLocals, brLocals, files, pre, invoked, exc, summary >>

IrWriteFailKeepsAsset ==
    /\ pc = "ir_loop"
    /\ n < IrLoopCount(ir)
    /\ attempts' = Append(attempts, IrAttempt("write failed"))
    /\ last_error' = WriteError
    /\ briefing' = AppendChart(briefing, IrAsset(ir, t, now_utc))
    /\ t' = MinusMinutes(t, ir.step_minutes)
    /\ n' = n + 1
    /\ UNCHANGED << entry, pc, clock, ir, now_utc,
                    spLocals, brLocals, files, pre, invoked, exc, summary >>

\* infared.py 58-59, 67-69: the response is good and write_bytes raises
IrWriteFail ==
    /\ pc = "ir_loop"
    /\ n < IrLoopCount(ir)
    /\ attempts' = Append(attempts, IrAttempt("write failed"))
    /\ last_error' = WriteError
    /\ t' = MinusMinutes(t, ir.step_minutes)
    /\ n' = n + 1
    /\ UNCHANGED << entry, pc, clock, briefing, ir, now_utc,
                    spLocals, brLocals, files, pre, invoked, exc, summary >>

IrSuccessStaleAsset ==
    /\ pc = "ir_loop"
    /\ n < IrLoopCount(ir)
    /\ attempts' = Append(attempts, IrAttempt("ok"))
    /\ files' = files \cup {IrSavePath(t)}
    /\ briefing' = AppendChart(briefing,
          [IrAsset(ir, FloorToStep(now_utc, ir.step_minutes), now_utc)
              EXCEPT !.local_path = IrSavePath(t),
                     !.content_type = "image/jpeg"])
    /\ pc' = "ir_return"
    /\ UNCHANGED << entry, clock, ir, now_utc, t, n, last_error,
                    spLocals, brLocals, pre, invoked, exc, summary >>

IrSuccessKeepsSearching ==
    /\ pc = "ir_loop"
    /\ n < IrLoopCount(ir)
    /\ attempts' = Append(attempts, IrAttempt("ok"))
    /\ files' = files \cup {IrSavePath(t)}
    /\ briefing' = AppendChart(briefing,
          [IrAsset(ir, t, now_utc) EXCEPT !.local_path = IrSavePath(t),
                                          !.content_type = "image/jpeg"])
    /\ t' = MinusMinutes(t, ir.step_minutes)
    /\ n' = n + 1
    /\ UNCHANGED << entry, pc, clock, ir, now_utc, last_error,
                    spLocals, brLocals, pre, invoked, exc, summary >>

\* infared.py 51-65: the response is good and the bytes are written
IrSuccess ==
    /\ pc = "ir_loop"
    /\ n < IrLoopCount(ir)
    /\ attempts' = Append(attempts, IrAttempt("ok"))
    /\ files' = files \cup {IrSavePath(t)}
    /\ briefing' = AppendChart(briefing,
          [IrAsset(ir, t, now_utc) EXCEPT !.local_path = IrSavePath(t),
                                          !.content_type = "image/jpeg"])
    /\ pc' = "ir_return"
    /\ UNCHANGED << entry, clock, ir, now_utc, t, n, last_error,
                    spLocals, brLocals, pre, invoked, exc, summary >>

\* infared.py 71-74: the loop ran out
IrExhausted ==
    /\ pc = "ir_loop"
    /\ n >= IrLoopCount(ir)
    /\ briefing' = AppendNote(briefing, IrExhaustionNote(ir, last_error))
    /\ pc' = "ir_return"
    /\ UNCHANGED << entry, clock, ir, now_utc, irLocals, spLocals, brLocals,
                    files, pre, invoked, exc, summary >>

\* collect returns to main.py 25; its locals are gone
IrReturn ==
    /\ pc = "ir_return"
    /\ now_utc' = NoTime
    /\ t' = NoTime
    /\ n' = 0
    /\ last_error' = None
    /\ attempts' = <<>>
    /\ pc' = "sp_begin"
    /\ UNCHANGED << entry, clock, briefing, ir, spLocals, brLocals, files, pre,
                    invoked, exc, summary >>

InfraredCollect ==
    \/ IrBegin \/ IrMiss \/ IrError \/ IrWriteFail \/ IrSuccess
    \/ IrExhausted \/ IrReturn

\* ------------------------------------------ SurfacePressureProvider.collect
\* surface_pressure_provider.py 16-20; the model bounds max_charts (8) by MaxCharts
SurfacePressureProvider ==
    [ name |-> "metoffice_surface_pressure",
      page_url |-> "https://weather.metoffice.gov.uk/maps-and-charts/surface-pressure",
      max_charts |-> MaxCharts ]

\* surface_pressure_provider.py 51: urljoin(page_url, src) of the image of <li> k
SpImgUrl(k) == "https://weather.metoffice.gov.uk/charts/colour" \o ToString(k) \o ".gif"

\* surface_pressure_provider.py 66-75, for a response that names no content type
SpSavePath(k) == "out/charts/surface_pressure/spc_" \o ToString(k) \o ".gif"

\* surface_pressure_provider.py 53-60
SpAsset(p, k, now) ==
    ChartAsset("Surface Pressure Chart " \o ToString(k), "analysis", SpImgUrl(k),
               now, None, None, p.name, [chart_index |-> k])

SpPageFailAppendsStub ==
    /\ pc = "sp_begin"
    /\ invoked' = Append(invoked, SurfacePressureProvider.name)
    /\ pre' = briefing
    /\ now_utc' = clock
    /\ \E e \in NetErrors :
          briefing' = AppendChart(
              AppendNote(briefing,
                  SurfacePressureProvider.name \o ": failed to fetch page: " \o e),
              SpAsset(SurfacePressureProvider, 0, clock))
    /\ pc' = "sp_return"
    /\ UNCHANGED << entry, clock, ir, irLocals, spLocals, brLocals, files, exc,
                    summary >>

\* surface_pressure_provider.py 22-36: the index page is fetched and parsed
SpPageOk ==
    /\ pc = "sp_begin"
    /\ invoked' = Append(invoked, SurfacePressureProvider.name)
    /\ pre' = briefing
    /\ now_utc' = clock
    /\ i' = 0
    /\ downloaded' = 0
    /\ requests' = <<>>
    /\ pc' = "sp_loop"
    /\ UNCHANGED << entry, clock, briefing, ir, irLocals, brLocals, files, exc,
                    summary >>

\* surface_pressure_provider.py 28-34: fetching or parsing the page raises
SpPageFail ==
    /\ pc = "sp_begin"
    /\ invoked' = Append(invoked, SurfacePressureProvider.name)
    /\ pre' = briefing
    /\ now_utc' = clock
    /\ \E e \in NetErrors :
          briefing' = AppendNote(briefing,
              SurfacePressureProvider.name \o ": failed to fetch page: " \o e)
    /\ pc' = "sp_return"
    /\ UNCHANGED << entry, clock, ir, irLocals, spLocals, brLocals, files, exc,
                    summary >>

\* surface_pressure_provider.py 39-49: no <li>, no <img> or no src for index i
SpSkip ==
    /\ pc = "sp_loop"
    /\ i < SurfacePressureProvider.max_charts
    /\ i' = i + 1
    /\ UNCHANGED << entry, pc, clock, briefing, ir, now_utc, irLocals, downloaded,
                    requests, brLocals, files, pre, invoked, exc, summary >>

SpDownloadOkPrepends ==
    /\ pc = "sp_loop"
    /\ i < SurfacePressureProvider.max_charts
    /\ requests' = Append(requests, SpImgUrl(i))
    /\ files' = files \cup {SpSavePath(i)}
    /\ downloaded' = downloaded + 1
    /\ briefing' = [briefing EXCEPT !.charts =
          << [SpAsset(SurfacePressureProvider, i, now_utc)
                EXCEPT !.local_path = SpSavePath(i), !.content_type = "image/gif"] >>
          \o @]
    /\ i' = i + 1
    /\ UNCHANGED << entry, pc, clock, ir, now_utc, irLocals, brLocals, pre,
                    invoked, exc, summary >>

\* surface_pressure_provider.py 62-80, 85: the image is fetched and written
SpDownloadOk ==
    /\ pc = "sp_loop"
    /\ i < SurfacePressureProvider.max_charts
    /\ requests' = Append(requests, SpImgUrl(i))
    /\ files' = files \cup {SpSavePath(i)}
    /\ downloaded' = downloaded + 1
    /\ briefing' = AppendChart(briefing,
          [SpAsset(SurfacePressureProvider, i, now_utc)
              EXCEPT !.local_path = SpSavePath(i), !.content_type = "image/gif"])
    /\ i' = i + 1
    /\ UNCHANGED << entry, pc, clock, ir, now_utc, irLocals, brLocals, pre,
                    invoked, exc, summary >>

SpDownloadFailDropsAsset ==
    /\ pc = "sp_loop"
    /\ i < SurfacePressureProvider.max_charts
    /\ requests' = Append(requests, SpImgUrl(i))
    /\ \E e \in {Timeout, WriteError} :
          briefing' = AppendNote(briefing, SurfacePressureProvider.name
                                   \o ": failed chart " \o ToString(i) \o ": " \o e)
    /\ i' = i + 1
    /\ UNCHANGED << entry, pc, clock, ir, now_utc, irLocals, downloaded, brLocals,
                    files, pre, invoked, exc, summary >>

SpDownloadFailKeepsPath ==
    /\ pc = "sp_loop"
    /\ i < SurfacePressureProvider.max_charts
    /\ requests' = Append(requests, SpImgUrl(i))
    /\ \E e \in {Timeout, WriteError} :
          briefing' = AppendChart(
              AppendNote(briefing, SurfacePressureProvider.name \o ": failed chart "
                                     \o ToString(i) \o ": " \o e),
              [SpAsset(SurfacePressureProvider, i, now_utc)
                  EXCEPT !.local_path = SpSavePath(i)])
    /\ i' = i + 1
    /\ UNCHANGED << entry, pc, clock, ir, now_utc, irLocals, downloaded, brLocals,
                    files, pre, invoked, exc, summary >>

\* surface_pressure_provider.py 62-64, 76, 82-85: the request or the write raises
SpDownloadFail ==
    /\ pc = "sp_loop"
    /\ i < SurfacePressureProvider.max_charts
    /\ requests' = Append(requests, SpImgUrl(i))
    /\ \E e \in {Timeout, WriteError} :
          briefing' = AppendChart(
              AppendNote(briefing, SurfacePressureProvider.name \o ": failed chart "
                                     \o ToString(i) \o ": " \o e),
              SpAsset(SurfacePressureProvider, i, now_utc))
    /\ i' = i + 1
    /\ UNCHANGED << entry, pc, clock, ir, now_utc, irLocals, downloaded, brLocals,
                    files, pre, invoked, exc, summary >>

SpFinishAlwaysNotes ==
    /\ pc = "sp_loop"
    /\ i >= SurfacePressureProvider.max_charts
    /\ briefing' = AppendNote(briefing, SurfacePressureProvider.name
                      \o ": no charts downloaded (page structure may have changed)")
    /\ pc' = "sp_return"
    /\ UNCHANGED << entry, clock, ir, now_utc, irLocals, spLocals, brLocals, files,
                    pre, invoked, exc, summary >>

SpFinishSilent ==
    /\ pc = "sp_loop"
    /\ i >= SurfacePressureProvider.max_charts
    /\ pc' = "sp_return"
    /\ UNCHANGED << entry, clock, briefing, ir, now_utc, irLocals, spLocals,
                    brLocals, files, pre, invoked, exc, summary >>

SpFinishOverwritesNotes ==
    /\ pc = "sp_loop"
    /\ i >= SurfacePressureProvider.max_charts
    /\ briefing' =
          IF downloaded = 0
          THEN [briefing EXCEPT !.notes = << SurfacePressureProvider.name
                  \o ": no charts downloaded (page structure may have changed)" >>]
          ELSE briefing
    /\ pc' = "sp_return"
    /\ UNCHANGED << entry, clock, ir, now_utc, irLocals, spLocals, brLocals, files,
                    pre, invoked, exc, summary >>

\* surface_pressure_provider.py 87-88: the loop is over
SpFinish ==
    /\ pc = "sp_loop"
    /\ i >= SurfacePressureProvider.max_charts
    /\ briefing' =
          IF downloaded = 0
          THEN AppendNote(briefing, SurfacePressureProvider.name
                  \o ": no charts downloaded (page structure may have changed)")
          ELSE briefing
    /\ pc' = "sp_return"
    /\ UNCHANGED << entry, clock, ir, now_utc, irLocals, spLocals, brLocals, files,
                    pre, invoked, exc, summary >>

\* collect returns to main.py 30; its locals are gone
SpReturn ==
    /\ pc = "sp_return"
    /\ now_utc' = NoTime
    /\ i' = 0
    /\ downloaded' = 0
    /\ requests' = <<>>
    /\ pc' = "radar_begin"
    /\ UNCHANGED << entry, clock, briefing, ir, irLocals, brLocals, files, pre,
                    invoked, exc, summary >>

SurfacePressureCollect ==
    \/ SpPageOk \/ SpPageFail \/ SpSkip \/ SpDownloadOk \/ SpDownloadFail
    \/ SpFinish \/ SpReturn

\* ---------------------------------------------- MetWebRadarProvider.collect
NoSafeGet == [k |-> 0, last_err |-> None, navs |-> <<>>]

\* metweb_radar_provider.py 36
RadarName == "metweb_radar_5min_ire"

\* metweb_radar_provider.py 119-128: the src of the radar <img>, made absolute
RadarImgSrc == "/radar/ire_5min_202501021235_a.png"
RadarImgUrl == "https://www.metweb.ie" \o RadarImgSrc

\* metweb_radar_provider.py 141-153: parts[-2] of the URL is a 12-digit stamp
RadarSavePath == "out/charts/radar_ire_5min/radar_5min_ire_202501021235.png"

\* metweb_radar_provider.py 46-58: webdriver.Firefox(...) raises, outside the try
RadarDriverFail ==
    /\ pc = "radar_begin"
    /\ invoked' = Append(invoked, RadarName)
    /\ pre' = briefing
    /\ now_utc' = clock
    /\ exc' = DriverError
    /\ pc' = "raised"
    /\ UNCHANGED << entry, clock, briefing, ir, irLocals, spLocals, brLocals,
                    files, summary >>

\* metweb_radar_provider.py 46-58: the driver is started
RadarDriverOk ==
    /\ pc = "radar_begin"
    /\ invoked' = Append(invoked, RadarName)
    /\ pre' = briefing
    /\ now_utc' = clock
    /\ driver' = <<"start">>
    /\ pc' = "radar_try"
    /\ UNCHANGED << entry, clock, briefing, ir, irLocals, spLocals, stage, sg,
                    files, exc, summary >>

\* metweb_radar_provider.py 61-117, 169-170: login or navigation raises
RadarPageError ==
    /\ pc = "radar_try"
    /\ driver' = Append(driver, "use")
    /\ briefing' = AppendNote(briefing, RadarName \o ": failed: " \o PageError)
    /\ pc' = "radar_finally"
    /\ UNCHANGED << entry, clock, ir, now_utc, irLocals, spLocals, stage, sg,
                    files, pre, invoked, exc, summary >>

RadarSrcMissingUnnamed ==
    /\ pc = "radar_try"
    /\ driver' = Append(driver, "use")
    /\ briefing' = AppendNote(briefing, "radar img src not found")
    /\ pc' = "radar_finally"
    /\ UNCHANGED << entry, clock, ir, now_utc, irLocals, spLocals, stage, sg,
                    files, pre, invoked, exc, summary >>

\* metweb_radar_provider.py 119-122: the <img> has no src
RadarSrcMissing ==
    /\ pc = "radar_try"
    /\ driver' = Append(driver, "use")
    /\ briefing' = AppendNote(briefing, RadarName \o ": radar img src not found")
    /\ pc' = "radar_finally"
    /\ UNCHANGED << entry, clock, ir, now_utc, irLocals, spLocals, stage, sg,
                    files, pre, invoked, exc, summary >>

RadarDownloadFailKeepsStub ==
    /\ pc = "radar_try"
    /\ driver' = Append(driver, "use")
    /\ requests' = Append(requests, RadarImgUrl)
    /\ \E e \in {Timeout, WriteError} :
          briefing' = AppendChart(
              AppendNote(briefing, RadarName \o ": failed: " \o e),
              ChartAsset("MetWeb Radar 5-min IRE (Latest)", "radar", RadarImgUrl,
                         now_utc, None, None, RadarName,
                         [url_src |-> RadarImgSrc, timestamp_hint |-> None]))
    /\ pc' = "radar_finally"
    /\ UNCHANGED << entry, clock, ir, now_utc, irLocals, i, downloaded, stage, sg,
                    files, pre, invoked, exc, summary >>

\* metweb_radar_provider.py 131-136, 154, 169-170: the download or the write raises
RadarDownloadFail ==
    /\ pc = "radar_try"
    /\ driver' = Append(driver, "use")
    /\ requests' = Append(requests, RadarImgUrl)
    /\ \E e \in {Timeout, WriteError} :
          briefing' = AppendNote(briefing, RadarName \o ": failed: " \o e)
    /\ pc' = "radar_finally"
    /\ UNCHANGED << entry, clock, ir, now_utc, irLocals, i, downloaded, stage, sg,
                    files, pre, invoked, exc, summary >>

\* metweb_radar_provider.py 61-167: the image is fetched and written
RadarSuccess ==
    /\ pc = "radar_try"
    /\ driver' = Append(driver, "use")
    /\ requests' = Append(requests, RadarImgUrl)
    /\ files' = files \cup {RadarSavePath}
    /\ briefing' = AppendChart(briefing,
          ChartAsset("MetWeb Radar 5-min IRE (Latest)", "radar", RadarImgUrl,
                     now_utc, RadarSavePath, "image/png", RadarName,
                     [url_src |-> RadarImgSrc, timestamp_hint |-> "202501021235"]))
    /\ pc' = "radar_finally"
    /\ UNCHANGED << entry, clock, ir, now_utc, irLocals, i, downloaded, stage, sg,
                    pre, invoked, exc, summary >>

RadarFinallyLeaksDriver ==
    /\ pc = "radar_finally"
    /\ pc' = "radar_return"
    /\ UNCHANGED << entry, clock, briefing, ir, now_utc, irLocals, spLocals,
                    brLocals, files, pre, invoked, exc, summary >>

\* metweb_radar_provider.py 172-173
RadarFinally ==
    /\ pc = "radar_finally"
    /\ driver' = Append(driver, "quit")
    /\ pc' = "radar_return"
    /\ UNCHANGED << entry, clock, briefing, ir, now_utc, irLocals, spLocals, stage,
                    sg, files, pre, invoked, exc, summary >>

\* collect returns to main.py 38; its locals are gone
RadarReturn ==
    /\ pc = "radar_return"
    /\ now_utc' = NoTime
    /\ driver' = <<>>
    /\ requests' = <<>>
    /\ pc' = "metie_begin"
    /\ UNCHANGED << entry, clock, briefing, ir, irLocals, i, downloaded, stage, sg,
                    files, pre, invoked, exc, summary >>

MetWebRadarCollect ==
    \/ RadarDriverFail \/ RadarDriverOk \/ RadarPageError \/ RadarSrcMissing
    \/ RadarDownloadFail \/ RadarSuccess \/ RadarFinally \/ RadarReturn

\* -------------------------------------------- MetIeBriefingProvider.collect
\* metie_briefing_provider.py 45
MetieName == "metie_selfbrief"

\* metie_briefing_provider.py 148-179: the three charts, in the order of the calls
MetieCharts ==
    << [xpath |-> "/html/body/div/div[10]/table/tbody/tr[1]/td[2]/img",
        display_name |-> "SigWx Charts", kind |-> "sigwx"],
       [xpath |-> "/html/body/div/div[11]/table/tbody/tr/td[2]/img",
        display_name |-> "Low Level Wind & Temp Charts", kind |-> "wind_temp"],
       [xpath |-> "/html/body/div/div[12]/table/tbody/tr/td[2]/img",
        display_name |-> "Low Level Sig Weather Charts", kind |-> "low_sigwx"] >>

\* main.py 41
Station == "EIME"

\* metie_briefing_provider.py 128 (station.lower() of main.py's "EIME")
MetieTextPath(now) == "out/text/metar_taf_eime_" \o YmdHms(now) \o ".txt"

\* metie_briefing_provider.py 204: urljoin(base_url, src)
MetieImgUrl(c) == "https://briefing.met.ie/charts/" \o c.kind \o ".png"

\* metie_briefing_provider.py 210-212
MetieSavePath(c, now) ==
    "out/charts/metie_selfbrief/" \o c.kind \o "_" \o YmdHms(now) \o ".png"

\* metie_briefing_provider.py 62-79: webdriver.Firefox(...) raises, outside the try
MetieDriverFail ==
    /\ pc = "metie_begin"
    /\ invoked' = Append(invoked, MetieName)
    /\ pre' = briefing
    /\ now_utc' = clock
    /\ exc' = DriverError
    /\ pc' = "raised"
    /\ UNCHANGED << entry, clock, briefing, ir, irLocals, spLocals, brLocals,
                    files, summary >>

\* metie_briefing_provider.py 62-79: the driver is started
MetieDriverOk ==
    /\ pc = "metie_begin"
    /\ invoked' = Append(invoked, MetieName)
    /\ pre' = briefing
    /\ now_utc' = clock
    /\ driver' = <<"start">>
    /\ stage' = 0
    /\ pc' = "metie_try"
    /\ UNCHANGED << entry, clock, briefing, ir, irLocals, spLocals, sg, files, exc,
                    summary >>

\* metie_briefing_provider.py 82-112, 181-182: login or waiting for METAR/TAF raises
MetiePageError ==
    /\ pc = "metie_try"
    /\ stage = 0
    /\ driver' = Append(driver, "use")
    /\ briefing' = AppendNote(briefing, MetieName \o ": failed: " \o PageError)
    /\ pc' = "metie_finally"
    /\ UNCHANGED << entry, clock, ir, now_utc, irLocals, spLocals, stage, sg,
                    files, pre, invoked, exc, summary >>

\* metie_briefing_provider.py 128-129, 181-182: write_text raises
MetieTextWriteFail ==
    /\ pc = "metie_try"
    /\ stage = 0
    /\ driver' = Append(driver, "use")
    /\ briefing' = AppendNote(briefing, MetieName \o ": failed: " \o WriteError)
    /\ pc' = "metie_finally"
    /\ UNCHANGED << entry, clock, ir, now_utc, irLocals, spLocals, stage, sg,
                    files, pre, invoked, exc, summary >>

\* metie_briefing_provider.py 82-145: the report is written, the TextAsset appended
MetieTextOk ==
    /\ pc = "metie_try"
    /\ stage = 0
    /\ driver' = Append(driver, "use")
    /\ files' = files \cup {MetieTextPath(now_utc)}
    /\ briefing' = AppendText(briefing,
          TextAsset("METAR/TAF " \o Station, "metar_taf", now_utc,
                    MetieTextPath(now_utc), MetieName, [station |-> Station]))
    /\ stage' = 1
    /\ UNCHANGED << entry, pc, clock, ir, now_utc, irLocals, spLocals, sg, pre,
                    invoked, exc, summary >>

\* metie_briefing_provider.py 198, 181-182: wait.until raises in
\* _download_img_at_xpath, outside its try; collect's handler takes it
MetieChartElementMissing ==
    /\ pc = "metie_try"
    /\ stage \in 1..Len(MetieCharts)
    /\ driver' = Append(driver, "use")
    /\ briefing' = AppendNote(briefing, MetieName \o ": failed: " \o PageError)
    /\ pc' = "metie_finally"
    /\ UNCHANGED << entry, clock, ir, now_utc, irLocals, spLocals, stage, sg,
                    files, pre, invoked, exc, summary >>

\* metie_briefing_provider.py 198-202: the <img> has no src
MetieChartSrcMissing ==
    /\ pc = "metie_try"
    /\ stage \in 1..Len(MetieCharts)
    /\ driver' = Append(driver, "use")
    /\ briefing' = AppendNote(briefing,
          MetieName \o ": " \o MetieCharts[stage].display_name \o ": img src missing")
    /\ stage' = stage + 1
    /\ UNCHANGED << entry, pc, clock, ir, now_utc, irLocals, spLocals, sg, files,
                    pre, invoked, exc, summary >>

\* metie_briefing_provider.py 206-213, 228-229: the download or the write raises
MetieChartDownloadFail ==
    /\ pc = "metie_try"
    /\ stage \in 1..Len(MetieCharts)
    /\ driver' = Append(driver, "use")
    /\ requests' = Append(requests, MetieImgUrl(MetieCharts[stage]))
    /\ \E e \in {Timeout, WriteError} :
          briefing' = AppendNote(briefing,
              MetieName \o ": " \o MetieCharts[stage].display_name
                 \o ": download failed: " \o e)
    /\ stage' = stage + 1
    /\ UNCHANGED << entry, pc, clock, ir, now_utc, irLocals, i, downloaded, sg,
                    files, pre, invoked, exc, summary >>

\* metie_briefing_provider.py 198-226: the chart is fetched, written and appended
MetieChartOk ==
    /\ pc = "metie_try"
    /\ stage \in 1..Len(MetieCharts)
    /\ driver' = Append(driver, "use")
    /\ requests' = Append(requests, MetieImgUrl(MetieCharts[stage]))
    /\ files' = files \cup {MetieSavePath(MetieCharts[stage], now_utc)}
    /\ briefing' = AppendChart(briefing,
          ChartAsset(MetieCharts[stage].display_name, "chart",
                     MetieImgUrl(MetieCharts[stage]), now_utc,
                     MetieSavePath(MetieCharts[stage], now_utc), "image/png",
                     MetieName, [xpath |-> MetieCharts[stage].xpath]))
    /\ stage' = stage + 1
    /\ UNCHANGED << entry, pc, clock, ir, now_utc, irLocals, i, downloaded, sg,
                    pre, invoked, exc, summary >>

\* metie_briefing_provider.py 179-181: the try block is over
MetieTryDone ==
    /\ pc = "metie_try"
    /\ stage > Len(MetieCharts)
    /\ pc' = "metie_finally"
    /\ UNCHANGED << entry, clock, briefing, ir, now_utc, irLocals, spLocals,
                    brLocals, files, pre, invoked, exc, summary >>

\* metie_briefing_provider.py 184-185
MetieFinally ==
    /\ pc = "metie_finally"
    /\ driver' = Append(driver, "quit")
    /\ pc' = "metie_return"
    /\ UNCHANGED << entry, clock, briefing, ir, now_utc, irLocals, spLocals, stage,
                    sg, files, pre, invoked, exc, summary >>

\* collect returns to main.py 45; its locals are gone
MetieReturn ==
    /\ pc = "metie_return"
    /\ now_utc' = NoTime
    /\ driver' = <<>>
    /\ stage' = 0
    /\ requests' = <<>>
    /\ pc' = "summary"
    /\ UNCHANGED << entry, clock, briefing, ir, irLocals, i, downloaded, sg, files,
                    pre, invoked, exc, summary >>

MetIeBriefingCollect ==
    \/ MetieDriverFail \/ MetieDriverOk \/ MetiePageError \/ MetieTextWriteFail
    \/ MetieTextOk \/ MetieChartElementMissing \/ MetieChartSrcMissing
    \/ MetieChartDownloadFail \/ MetieChartOk \/ MetieTryDone \/ MetieFinally
    \/ MetieReturn

\* --------------------------------------------- MetSelfBriefProvider.collect
\* metself_brief.py 30
MsbName == "metie_custombrief"

\* metself_brief.py 96, 135: attempts=3
SafeGetAttempts == 3

NavErrors == {"WebDriverException", "Firefox error page: about:neterror"}

\* metself_brief.py 145: _extract_metar_taf_from_sections is defined at module
\* level (195), so the attribute lookup on self raises
ExtractError ==
    "'MetSelfBriefProvider' object has no attribute '_extract_metar_taf_from_sections'"

\* the position inside the try block of MetSelfBriefProvider.collect
MsbFirstGet == 0
MsbSafeGet1 == 1
MsbLogin == 2
MsbSafeGet2 == 3
MsbWaitMetar == 4
MsbExtract == 5

\* metself_brief.py 67-87: webdriver.Firefox(...) raises, outside the try
MsbDriverFail ==
    /\ pc = "msb_begin"
    /\ invoked' = Append(invoked, MsbName)
    /\ pre' = briefing
    /\ now_utc' = clock
    /\ exc' = DriverError
    /\ pc' = "raised"
    /\ UNCHANGED << entry, clock, briefing, ir, irLocals, spLocals, brLocals,
                    files, summary >>

\* metself_brief.py 67-87: the driver is started
MsbDriverOk ==
    /\ pc = "msb_begin"
    /\ invoked' = Append(invoked, MsbName)
    /\ pre' = briefing
    /\ now_utc' = clock
    /\ driver' = <<"start">>
    /\ stage' = MsbFirstGet
    /\ sg' = NoSafeGet
    /\ pc' = "msb_try"
    /\ UNCHANGED << entry, clock, briefing, ir, irLocals, spLocals, files, exc,
                    summary >>

\* metself_brief.py 181-189: collect's handler appends the note, then reads the
\* page and takes a screenshot inside its own try
MsbHandle(e) ==
    /\ briefing' = AppendNote(briefing, MsbName \o ": failed: " \o e)
    /\ driver' = driver \o <<"use", "use">>
    /\ pc' = "msb_finally"

\* metself_brief.py 93: the first driver.get
MsbGet ==
    /\ pc = "msb_try"
    /\ stage = MsbFirstGet
    /\ \/ /\ driver' = Append(driver, "use")
          /\ stage' = MsbSafeGet1
          /\ sg' = NoSafeGet
          /\ UNCHANGED << pc, briefing >>
       \/ /\ MsbHandle("WebDriverException")
          /\ UNCHANGED << stage, sg >>
    /\ UNCHANGED << entry, clock, ir, now_utc, irLocals, spLocals, files, pre,
                    invoked, exc, summary >>

SafeGetNavOkRetries ==
    /\ pc = "msb_try"
    /\ stage \in {MsbSafeGet1, MsbSafeGet2}
    /\ sg.k < SafeGetAttempts
    /\ driver' = Append(driver, "use")
    /\ sg' = [sg EXCEPT !.navs = Append(@, "ok"), !.k = @ + 1]
    /\ UNCHANGED << entry, pc, clock, briefing, ir, now_utc, irLocals, spLocals,
                    stage, files, pre, invoked, exc, summary >>

\* metself_brief.py 56-61, 97, 136: driver.get lands on a page; _safe_get returns
\* and _debug_dump writes the page
SafeGetNavOk ==
    /\ pc = "msb_try"
    /\ stage \in {MsbSafeGet1, MsbSafeGet2}
    /\ sg.k < SafeGetAttempts
    /\ driver' = driver \o <<"use", "use">>
    /\ sg' = [sg EXCEPT !.navs = Append(@, "ok")]
    /\ stage' = stage + 1
    /\ UNCHANGED << entry, pc, clock, briefing, ir, now_utc, irLocals, spLocals,
                    files, pre, invoked, exc, summary >>

\* metself_brief.py 56-64: driver.get raises or lands on about:neterror
SafeGetNavFail ==
    /\ pc = "msb_try"
    /\ stage \in {MsbSafeGet1, MsbSafeGet2}
    /\ sg.k < SafeGetAttempts
    /\ driver' = Append(driver, "use")
    /\ \E e \in NavErrors :
          sg' = [k |-> sg.k + 1, last_err |-> e, navs |-> Append(sg.navs, e)]
    /\ UNCHANGED << entry, pc, clock, briefing, ir, now_utc, irLocals, spLocals,
                    stage, files, pre, invoked, exc, summary >>

\* metself_brief.py 65: the loop ran out, raise last_err; collect's handler takes it
SafeGetRaise ==
    /\ pc = "msb_try"
    /\ stage \in {MsbSafeGet1, MsbSafeGet2}
    /\ sg.k >= SafeGetAttempts
    /\ MsbHandle(sg.last_err)
    /\ UNCHANGED << entry, clock, ir, now_utc, irLocals, spLocals, stage, sg,
                    files, pre, invoked, exc, summary >>

\* metself_brief.py 100-132: the login form, when shown, is filled and submitted
MsbLoginStep ==
    /\ pc = "msb_try"
    /\ stage = MsbLogin
    /\ \/ /\ driver' = driver \o <<"use", "use">>
          /\ stage' = MsbSafeGet2
          /\ sg' = NoSafeGet
          /\ UNCHANGED << pc, briefing >>
       \/ /\ MsbHandle(PageError)
          /\ UNCHANGED << stage, sg >>
    /\ UNCHANGED << entry, clock, ir, now_utc, irLocals, spLocals, files, pre,
                    invoked, exc, summary >>

\* metself_brief.py 140-143: wait for a td.briefingText that starts with METAR
MsbWait ==
    /\ pc = "msb_try"
    /\ stage = MsbWaitMetar
    /\ \/ /\ driver' = Append(driver, "use")
          /\ stage' = MsbExtract
          /\ UNCHANGED << pc, briefing >>
       \/ /\ MsbHandle(PageError)
          /\ UNCHANGED stage
    /\ UNCHANGED << entry, clock, ir, now_utc, irLocals, spLocals, sg, files, pre,
                    invoked, exc, summary >>

\* metself_brief.py 145: self._extract_metar_taf_from_sections raises
\* AttributeError; lines 151-175 are never reached
MsbExtractRaises ==
    /\ pc = "msb_try"
    /\ stage = MsbExtract
    /\ MsbHandle(ExtractError)
    /\ UNCHANGED << entry, clock, ir, now_utc, irLocals, spLocals, stage, sg,
                    files, pre, invoked, exc, summary >>

\* metself_brief.py 191-192
MsbFinally ==
    /\ pc = "msb_finally"
    /\ driver' = Append(driver, "quit")
    /\ pc' = "msb_return"
    /\ UNCHANGED << entry, clock, briefing, ir, now_utc, irLocals, spLocals, stage,
                    sg, files, pre, invoked, exc, summary >>

\* collect returns to run_metself_brief.py 23; its locals are gone
MsbReturn ==
    /\ pc = "msb_return"
    /\ now_utc' = NoTime
    /\ driver' = <<>>
    /\ stage' = 0
    /\ sg' = NoSafeGet
    /\ pc' = "summary"
    /\ UNCHANGED << entry, clock, briefing, ir, irLocals, spLocals, files, pre,
                    invoked, exc, summary >>

MetSelfBriefCollect ==
    \/ MsbDriverFail \/ MsbDriverOk \/ MsbGet \/ SafeGetNavOk \/ SafeGetNavFail
    \/ SafeGetRaise \/ MsbLoginStep \/ MsbWait \/ MsbExtractRaises \/ MsbFinally
    \/ MsbReturn

\* ------------------------------------------------------------- the summary
Line(label, value) == [label |-> label, value |-> value]

LocalPaths(assets) == [k \in 1..Len(assets) |-> assets[k].local_path]

\* main.py 51-58: the body of the loop over briefing.charts, for one chart
ChartLines(b, chart) ==
    << Line("", ""),
       Line("Name: ", chart.name),
       Line("Source URL: ", chart.original_url),
       Line("Saved to: ", chart.local_path),
       Line("Text assets:", LocalPaths(b.texts)),
       Line("Charts:", LocalPaths(b.charts)),
       Line("Notes:", b.notes) >>

RECURSIVE AllChartLines(_, _)
\* main.py 50: for chart in briefing.charts, from chart k on
AllChartLines(b, k) ==
    IF k > Len(b.charts) THEN <<>>
    ELSE ChartLines(b, b.charts[k]) \o AllChartLines(b, k + 1)

\* main.py 45-58
MainSummaryLines(b) ==
    << Line("=== BRIEFING SUMMARY ===", ""),
       Line("Generated at: ", StrDatetime(b.generated_at_utc)),
       Line("Charts collected: ", ToString(Len(b.charts))),
       Line("Notes: ", b.notes) >>
    \o AllChartLines(b, 1)

\* run_metself_brief.py 23-25
MsbSummaryLines(b) ==
    << Line("Texts:", LocalPaths(b.texts)),
       Line("Charts:", ToString(Len(b.charts))),
       Line("Notes:", b.notes) >>

\* main.py 45-58, run_metself_brief.py 23-25: the prints after the last collect
Summary ==
    /\ pc = "summary"
    /\ summary' = IF entry = "main" THEN MainSummaryLines(briefing)
                                    ELSE MsbSummaryLines(briefing)
    /\ pc' = "done"
    /\ UNCHANGED << entry, clock, briefing, ir, now_utc, irLocals, spLocals,
                    brLocals, files, pre, invoked, exc >>

Next ==
    \/ Start
    \/ InfraredCollect
    \/ SurfacePressureCollect
    \/ MetWebRadarCollect
    \/ MetIeBriefingCollect
    \/ MetSelfBriefCollect
    \/ Summary

Spec == Init /\ [][Next]_vars

\* ----------------------------------------------- the probe, for every setting
\* a caller constructs InfraredProvider(step_minutes=, max_steps=) and calls collect
InitProbe ==
    /\ entry = "main"
    /\ pc = "ir_begin"
    /\ clock \in ClockChoices
    /\ briefing = Briefing(clock)
    /\ \E step \in StepChoices, max_steps \in 0..MaxSteps :
          ir = InfraredProvider(step, max_steps)
    /\ now_utc = NoTime
    /\ t = NoTime
    /\ n = 0
    /\ last_error = None
    /\ attempts = <<>>
    /\ i = 0
    /\ downloaded = 0
    /\ requests = <<>>
    /\ driver = <<>>
    /\ stage = 0
    /\ sg = NoSafeGet
    /\ files = {}
    /\ pre = Briefing(NoTime)
    /\ invoked = <<>>
    /\ exc = None
    /\ summary = <<>>

SpecProbe == InitProbe /\ [][InfraredCollect]_vars

\* ------------------------------------- the probe, while the wall clock runs
\* the minutes the wall clock can advance by between two steps of the probe
TickChoices == {7, 16}

\* infared.py 26 reads datetime.now once; the wall clock goes on while the
\* requests of the loop are in flight
Tick ==
    /\ pc = "ir_loop"
    /\ \E d \in TickChoices :
          /\ clock.min + d - now_utc.min <= MaxDrift
          /\ clock' = [clock EXCEPT !.min = @ + d]
    /\ UNCHANGED << entry, pc, briefing, ir, now_utc, irLocals, spLocals,
                    brLocals, files, pre, invoked, exc, summary >>

SpecClock == InitProbe /\ [][InfraredCollect \/ Tick]_vars

\* ------------------------------------------------ the floor, for every input
FloorSteps == 1..59
FloorClocks ==
    { [min |-> 1440 + 23 * 60 + m, sec |-> s, us |-> u] :
         m \in 0..119, s \in {0, 59}, u \in {0, 999999} }

InitFloor ==
    /\ entry = "main"
    /\ pc = "ir_begin"
    /\ clock \in FloorClocks
    /\ briefing = Briefing(clock)
    /\ \E step \in FloorSteps : ir = InfraredProvider(step, 0)
    /\ now_utc = NoTime
    /\ t = NoTime
    /\ n = 0
    /\ last_error = None
    /\ attempts = <<>>
    /\ i = 0
    /\ downloaded = 0
    /\ requests = <<>>
    /\ driver = <<>>
    /\ stage = 0
    /\ sg = NoSafeGet
    /\ files = {}
    /\ pre = Briefing(NoTime)
    /\ invoked = <<>>
    /\ exc = None
    /\ summary = <<>>

SpecFloor == InitFloor /\ [][IrBegin]_vars

\* ------------------------------------------------------------------ claims
StartsWith(s, p) == Len(s) >= Len(p) /\ SubSeq(s, 1, Len(p)) = p
IsPrefix(a, b) == Len(a) <= Len(b) /\ SubSeq(b, 1, Len(a)) = a
Last(q) == q[Len(q)]

\* the whole seconds from 2025-01-01T00:00Z to d
Seconds(d) == d.min * 60 + d.sec
\* a <= b, and b - a < s seconds, for datetimes a and b
NotAfter(a, b) ==
    \/ Seconds(b) - Seconds(a) >= 1
    \/ Seconds(b) - Seconds(a) = 0 /\ b.us >= a.us
LessThanSecondsApart(a, b, s) ==
    IF b.us >= a.us THEN Seconds(b) - Seconds(a) < s
                    ELSE Seconds(b) - Seconds(a) <= s

\* every attempt of the running InfraredProvider.collect was made and none succeeded
Exhausted ==
    /\ Len(attempts) = ir.max_steps + 1
    /\ \A k \in 1..Len(attempts) : attempts[k].outcome # "ok"

\* the attempts of the running call that failed with something other than a 404
ErrorAttempts == { k \in 1..Len(attempts) : attempts[k].outcome \notin {"ok", "404"} }
ErrorText(a) == IF a.outcome = "write failed" THEN WriteError ELSE a.outcome

\* C1: one InfraredProvider.collect call issues at most max_steps + 1 retrieval
\* attempts, and the candidate of each attempt is exactly step minutes earlier
\* than the candidate of the attempt before it.
C1_AttemptsBoundedAndStepBack ==
    /\ Len(attempts) <= ir.max_steps + 1
    /\ \A k \in 2..Len(attempts) :
          /\ attempts[k].t.min = attempts[k - 1].t.min - ir.step_minutes
          /\ attempts[k].t.sec = attempts[k - 1].t.sec
          /\ attempts[k].t.us = attempts[k - 1].t.us
          /\ attempts[k].t.min < attempts[k - 1].t.min

C1_Witness ==
    /\ pc = "ir_return"
    /\ ir.max_steps = MaxSteps
    /\ Len(attempts) = MaxSteps + 1
    /\ \E k \in 1..Len(attempts) : attempts[k].outcome = "404"
    /\ \E k \in 1..Len(attempts) : attempts[k].outcome = Timeout

\* C2: when an attempt of InfraredProvider.collect succeeds it is the last
\* attempt of the call, the call is over, and the call has appended exactly one
\* chart asset.
C2_FirstSuccessTerminates ==
    \A k \in 1..Len(attempts) :
        attempts[k].outcome = "ok" =>
            /\ k = Len(attempts)
            /\ pc = "ir_return"
            /\ Len(briefing.charts) = Len(pre.charts) + 1
            /\ IsPrefix(pre.charts, briefing.charts)

C2_Witness ==
    /\ pc = "ir_return"
    /\ ir.max_steps >= 2
    /\ Len(attempts) = 2
    /\ attempts[2].outcome = "ok"
    /\ Len(briefing.charts) = 1

\* C3: when all max_steps + 1 attempts ended without success the call has, on
\* return, appended no chart asset and exactly one note, the note states the
\* window step * max_steps in minutes, and no exception left the call.
C3_ExhaustionNote ==
    (pc = "ir_return" /\ Exhausted) =>
        /\ briefing.charts = pre.charts
        /\ Len(briefing.notes) = Len(pre.notes) + 1
        /\ IsPrefix(pre.notes, briefing.notes)
        /\ StartsWith(Last(briefing.notes),
              "met_ie_infrared: no IR image found in last "
                 \o ToString(ir.step_minutes * ir.max_steps) \o " minutes")
        /\ exc = None

C3_Witness ==
    /\ pc = "ir_return"
    /\ Exhausted
    /\ ir.step_minutes = 15
    /\ ir.max_steps = 3
    /\ \A k \in 1..Len(attempts) : attempts[k].outcome = "404"
    /\ briefing.notes = << "met_ie_infrared: no IR image found in last 45 minutes" >>

\* C4: the error text of the exhaustion note is the error of the latest attempt
\* that failed with something other than a 404, whatever 404 misses came after
\* it, and the note has no error text when every attempt was a 404.
C4_NoteCarriesLatestError ==
    (pc = "ir_return" /\ Exhausted) =>
        LET window == "met_ie_infrared: no IR image found in last "
                         \o ToString(ir.step_minutes * ir.max_steps) \o " minutes"
        IN  IF ErrorAttempts = {}
            THEN Last(briefing.notes) = window
            ELSE LET latest == CHOOSE k \in ErrorAttempts :
                                  \A j \in ErrorAttempts : j <= k
                 IN  Last(briefing.notes) =
                        window \o " (last error: " \o ErrorText(attempts[latest]) \o ")"

C4_Witness ==
    /\ pc = "ir_return"
    /\ Exhausted
    /\ Len(attempts) = 4
    /\ attempts[1].outcome = Timeout
    /\ \A k \in 2..4 : attempts[k].outcome = "404"

\* C5: no exception crosses a provider boundary: no collect call ends by raising.
C5_NoExceptionLeavesCollect == exc = None

\* C6: main() calls collect of infrared, surface pressure, radar and self-briefing
\* once each in that order and then prints the summary, whatever the outcomes.
C6_AllProvidersRunThenSummary ==
    (entry = "main" /\ pc \in {"done", "raised"}) =>
        /\ invoked = << ir.name, SurfacePressureProvider.name, RadarName, MetieName >>
        /\ summary # <<>>

\* C7: every step of a run leaves each of briefing.charts, briefing.texts and
\* briefing.notes with its former value as a prefix.
C7_AppendOnly ==
    [][ /\ IsPrefix(briefing.charts, briefing'.charts)
        /\ IsPrefix(briefing.texts, briefing'.texts)
        /\ IsPrefix(briefing.notes, briefing'.notes) ]_vars

C7_Witness ==
    /\ pc = "done"
    /\ entry = "main"
    /\ Len(briefing.charts) >= 3
    /\ Len(briefing.texts) = 1
    /\ Len(briefing.notes) >= 3
    /\ \E k \in 1..Len(briefing.notes) :
          briefing.notes[k] = SurfacePressureProvider.name
              \o ": no charts downloaded (page structure may have changed)"
    /\ StartsWith(briefing.notes[1], "met_ie_infrared: ")

\* C8: a driver that collect acquired is quit exactly once before collect
\* returns, the quit is its last event, and a collect that raises has acquired
\* no driver.
C8_DriverQuitExactlyOnce ==
    LET quits == { k \in 1..Len(driver) : driver[k] = "quit" }
    IN  /\ Cardinality(quits) <= 1
        /\ \A k \in quits : k = Len(driver)
        /\ pc \in {"radar_return", "metie_return", "msb_return"} =>
              /\ driver # <<>>
              /\ driver[1] = "start"
              /\ Last(driver) = "quit"
        /\ pc = "raised" => driver = <<>>

C8_Witness ==
    /\ pc = "radar_return"
    /\ driver = << "start", "use", "quit" >>
    /\ Last(briefing.notes) = RadarName \o ": radar img src not found"

\* C9: a chart asset of the Briefing has a local_path exactly when its bytes were
\* written: every local_path names a written file, and every written chart file
\* is the local_path of a chart asset.
C9_LocalPathIffWritten ==
    /\ \A k \in 1..Len(briefing.charts) :
          briefing.charts[k].local_path # None =>
              briefing.charts[k].local_path \in files
    /\ \A f \in files :
          StartsWith(f, "out/charts/") =>
              \E k \in 1..Len(briefing.charts) : briefing.charts[k].local_path = f

C9_Witness ==
    /\ pc = "done"
    /\ \E k \in 1..Len(briefing.charts) : briefing.charts[k].local_path = None
    /\ \E k \in 1..Len(briefing.charts) :
          /\ briefing.charts[k].local_path # None
          /\ briefing.charts[k].source = SurfacePressureProvider.name
    /\ \E k \in 1..Len(briefing.notes) :
          StartsWith(briefing.notes[k], "met_ie_infrared: ")

\* C10: the first candidate has second and microsecond zero and a minute that is
\* a multiple of step, is not after now, and is less than step minutes before now.
C10_FloorOfFirstCandidate ==
    (pc = "ir_loop" /\ attempts = <<>>) =>
        /\ t.sec = 0
        /\ t.us = 0
        /\ Minute(t) % ir.step_minutes = 0
        /\ NotAfter(t, now_utc)
        /\ LessThanSecondsApart(t, now_utc, ir.step_minutes * 60)

C10_Witness ==
    /\ pc = "ir_loop"
    /\ ir.step_minutes = 15
    /\ Minute(now_utc) = 37
    /\ now_utc.sec = 59
    /\ now_utc.us = 999999
    /\ Minute(t) = 30
    /\ t.min = now_utc.min - 7

\* the floor of the running call's clock reading, moved back by k steps
Candidate(k) ==
    [ min |-> (now_utc.min \div 60) * 60
                 + ((now_utc.min % 60) \div ir.step_minutes) * ir.step_minutes
                 - k * ir.step_minutes,
      sec |-> 0, us |-> 0 ]

\* C11: with max_steps = 0 the call makes exactly one attempt, at the floored
\* current time, and ends with either the asset of that timestamp or one
\* exhaustion note; no earlier timestamp is probed.
C11_SingleAttemptWithoutFallback ==
    ir.max_steps = 0 =>
        /\ Len(attempts) <= 1
        /\ \A k \in 1..Len(attempts) : attempts[k].t = Candidate(0)
        /\ pc = "ir_return" =>
              /\ Len(attempts) = 1
              /\ IF attempts[1].outcome = "ok"
                 THEN /\ Len(briefing.charts) = Len(pre.charts) + 1
                      /\ Last(briefing.charts).extras.candidate_time_utc
                            = IsoFormat(Candidate(0))
                      /\ briefing.notes = pre.notes
                 ELSE /\ briefing.charts = pre.charts
                      /\ Len(briefing.notes) = Len(pre.notes) + 1

C11_Witness ==
    /\ ir.max_steps = 0
    /\ pc = "ir_return"
    /\ Len(attempts) = 1
    /\ attempts[1].outcome = "404"
    /\ Len(briefing.notes) = 1

\* C12: the candidate of attempt k (counted from 0) is the floor of the clock
\* reading taken at the start of collect moved back by k steps, whatever the
\* wall clock shows by then; the URLs requested and the file written are
\* functions of that reading, the provider's settings and the outcomes alone.
C12_CandidatesFromSingleReading ==
    /\ \A k \in 1..Len(attempts) :
          /\ attempts[k].t = Candidate(k - 1)
          /\ attempts[k].url = IrUrl(ir, Candidate(k - 1))
    /\ pc = "ir_loop" => t = Candidate(Len(attempts))
    /\ pc = "ir_return" =>
          /\ files = IF Last(attempts).outcome = "ok"
                     THEN {IrSavePath(Candidate(Len(attempts) - 1))}
                     ELSE {}
          /\ \A k \in Len(pre.charts) + 1..Len(briefing.charts) :
                briefing.charts[k].fetched_at_utc = now_utc

C12_Witness ==
    /\ pc = "ir_return"
    /\ clock.min >= now_utc.min + 16
    /\ ir.step_minutes = 15
    /\ Len(attempts) = 3
    /\ attempts[3].outcome = "ok"
    /\ attempts[3].t = Candidate(2)
    /\ files = {IrSavePath(Candidate(2))}

\* the lines of the printed summary that carry the given label
LinesLabelled(label) == { k \in 1..Len(summary) : summary[k].label = label }

\* C13: the summary main() prints holds, in every run, the totals, the name,
\* source URL and saved path of every chart (a chart without local_path
\* included), the text asset paths and all notes, also with zero charts.
C13_SummaryListsEverything ==
    (entry = "main" /\ pc = "done") =>
        /\ \E k \in LinesLabelled("Charts collected: ") :
              summary[k].value = ToString(Len(briefing.charts))
        /\ \A c \in 1..Len(briefing.charts) :
              /\ \E k \in LinesLabelled("Name: ") :
                    summary[k].value = briefing.charts[c].name
              /\ \E k \in LinesLabelled("Source URL: ") :
                    summary[k].value = briefing.charts[c].original_url
              /\ \E k \in LinesLabelled("Saved to: ") :
                    summary[k].value = briefing.charts[c].local_path
        /\ \E k \in LinesLabelled("Text assets:") :
              summary[k].value = LocalPaths(briefing.texts)
        /\ \E k \in LinesLabelled("Notes: ") \cup LinesLabelled("Notes:") :
              summary[k].value = briefing.notes

\* the notes the running (or just returned) collect call has appended
NewNotes == { k \in 1..Len(briefing.notes) : k > Len(pre.notes) }

\* C14: every note a provider appends begins with the name of the provider
\* instance whose collect appended it, followed by a colon and a space.
C14_NotesCarryProviderName ==
    invoked # <<>> =>
        \A k \in NewNotes : StartsWith(briefing.notes[k], Last(invoked) \o ": ")

C14_Witness ==
    /\ entry = "main"
    /\ pc = "metie_return"
    /\ Len(briefing.notes) >= 4
    /\ StartsWith(briefing.notes[1], "met_ie_infrared: no IR image")
    /\ StartsWith(briefing.notes[2], "metoffice_surface_pressure: failed to fetch page: ")
    /\ \E k \in NewNotes :
          StartsWith(briefing.notes[k], "metie_selfbrief: SigWx Charts: download failed: ")
    /\ \E k \in 1..Len(briefing.notes) :
          briefing.notes[k] = RadarName \o ": radar img src not found"

\* the charts the running (or just returned) collect call has appended
NewCharts == SubSeq(briefing.charts, Len(pre.charts) + 1, Len(briefing.charts))

\* when the provider called name was invoked, and when url was requested
InvokedAt(name) == CHOOSE k \in 1..Len(invoked) : invoked[k] = name
RequestedAt(url) == CHOOSE k \in 1..Len(requests) : requests[k] = url

\* C15: in briefing.charts the assets of an earlier-invoked provider precede
\* those of a later-invoked one, and the assets of one provider are in the
\* order in which they were fetched.
C15_ArrivalOrder ==
    /\ \A k \in 1..Len(briefing.charts) :
          \E j \in 1..Len(invoked) : invoked[j] = briefing.charts[k].source
    /\ \A j, k \in 1..Len(briefing.charts) :
          j < k => InvokedAt(briefing.charts[j].source)
                      <= InvokedAt(briefing.charts[k].source)
    /\ pc \in {"sp_loop", "sp_return"} =>
          /\ requests = [k \in 1..Len(NewCharts) |-> NewCharts[k].original_url]
          /\ \A j, k \in 1..Len(NewCharts) :
                j < k => NewCharts[j].extras.chart_index
                            < NewCharts[k].extras.chart_index
    /\ pc \in {"metie_try", "metie_finally", "metie_return"} =>
          /\ \A k \in 1..Len(NewCharts) :
                \E j \in 1..Len(requests) : requests[j] = NewCharts[k].original_url
          /\ \A j, k \in 1..Len(NewCharts) :
                j < k => RequestedAt(NewCharts[j].original_url)
                            < RequestedAt(NewCharts[k].original_url)

C15_Witness ==
    /\ entry = "main"
    /\ pc = "done"
    /\ Len(briefing.charts) = 7
    /\ briefing.charts[1].source = "met_ie_infrared"
    /\ briefing.charts[2].extras.chart_index = 0
    /\ briefing.charts[3].extras.chart_index = 1
    /\ briefing.charts[4].source = RadarName
    /\ briefing.charts[5].name = "SigWx Charts"
    /\ briefing.charts[7].name = "Low Level Sig Weather Charts"

\* the texts the running (or just returned) collect call has appended
NewTexts == SubSeq(briefing.texts, Len(pre.texts) + 1, Len(briefing.texts))

\* the running call has appended an asset whose bytes are on disk
PersistedAsset ==
    \/ \E k \in 1..Len(NewCharts) : NewCharts[k].local_path # None
    \/ \E k \in 1..Len(NewTexts) : NewTexts[k].local_path # None

Returning ==
    pc \in {"ir_return", "sp_return", "radar_return", "metie_return", "msb_return"}

\* C16: a collect call that returns without having appended any chart or text
\* asset with a local_path has appended at least one note during the call.
C16_NoSilentFailure ==
    (Returning /\ ~PersistedAsset) => NewNotes # {}

C16_Witness ==
    /\ pc = "sp_return"
    /\ Len(NewCharts) = MaxCharts
    /\ ~PersistedAsset
    /\ Cardinality(NewNotes) = MaxCharts + 1

\* C17: when the probe succeeds at attempt k (counted from 0) the appended
\* asset is that of candidate k: its candidate_time_utc, its original_url and
\* the saved file name are those of floor(now) - k * step, and each more recent
\* candidate 0..k-1 was probed before it, in that order, without success.
C17_AssetIsMostRecentRetrievable ==
    (pc = "ir_return" /\ Last(attempts).outcome = "ok") =>
        LET k == Len(attempts) - 1
            asset == Last(briefing.charts)
        IN  /\ asset.extras.candidate_time_utc = IsoFormat(Candidate(k))
            /\ asset.original_url = IrUrl(ir, Candidate(k))
            /\ asset.original_url = attempts[k + 1].url
            /\ asset.local_path = IrSavePath(Candidate(k))
            /\ asset.local_path \in files
            /\ \A j \in 0..k - 1 :
                  /\ attempts[j + 1].t = Candidate(j)
                  /\ attempts[j + 1].outcome # "ok"
                  /\ Candidate(j).min > Candidate(k).min

C17_Witness ==
    /\ pc = "ir_return"
    /\ ir.step_minutes = 7
    /\ Len(attempts) = 3
    /\ attempts[1].outcome = "404"
    /\ attempts[2].outcome = ServerError
    /\ attempts[3].outcome = "ok"
    /\ Last(briefing.charts).extras.candidate_time_utc = IsoFormat(Candidate(2))
    /\ Candidate(2).min = Candidate(0).min - 14

\* C18: an attempt of the probe that ends in a 404 or in any other failure
\* moves the candidate back by exactly one step and goes on with the search,
\* and leaves briefing.charts and briefing.notes as they were; while the search
\* is on, the call has appended nothing.
C18_FailedAttemptStepsBackOnly ==
    [][ (pc = "ir_loop" /\ Len(attempts') = Len(attempts) + 1
            /\ Last(attempts').outcome # "ok") =>
          /\ pc' = "ir_loop"
          /\ t' = [t EXCEPT !.min = @ - ir.step_minutes]
          /\ n' = n + 1
          /\ briefing'.charts = briefing.charts
          /\ briefing'.notes = briefing.notes
          /\ briefing' = pre ]_vars

C18_Witness ==
    /\ pc = "ir_loop"
    /\ Len(attempts) = 3
    /\ attempts[1].outcome = "404"
    /\ attempts[2].outcome = Timeout
    /\ attempts[3].outcome = "write failed"
    /\ ir.step_minutes = 15
    /\ Minute(now_utc) = 37
    /\ t.min = now_utc.min - 7 - 45
    /\ briefing = pre

\* the attempts of the running probe whose bytes arrived and could not be written
WriteFailures == { k \in 1..Len(attempts) : attempts[k].outcome = "write failed" }

\* C19: an attempt whose bytes arrive but cannot be written is a transient
\* error: no asset is appended for its candidate, the write error is the
\* remembered last error until a later error replaces it, and the search goes
\* on with the next earlier candidate.
C19_WriteFailureIsTransient ==
    \A k \in WriteFailures :
        /\ \A c \in 1..Len(briefing.charts) :
              briefing.charts[c].original_url # attempts[k].url
        /\ (\A j \in k + 1..Len(attempts) : attempts[j].outcome \in {"404", "ok"})
              => last_error = WriteError
        /\ k < Len(attempts) =>
              attempts[k + 1].t = MinusMinutes(attempts[k].t, ir.step_minutes)
        /\ (k = Len(attempts) /\ pc = "ir_loop") =>
              t = MinusMinutes(attempts[k].t, ir.step_minutes)
        /\ (k = Len(attempts) /\ pc = "ir_return") =>
              /\ k = ir.max_steps + 1
              /\ Last(briefing.notes) = IrExhaustionNote(ir, WriteError)

C19_Witness ==
    /\ pc = "ir_return"
    /\ Len(attempts) = 3
    /\ attempts[1].outcome = "write failed"
    /\ attempts[2].outcome = "404"
    /\ attempts[3].outcome = "ok"
    /\ last_error = WriteError
    /\ Len(briefing.charts) = 1

\* C20: when fetching or parsing the index page fails,
\* SurfacePressureProvider.collect appends exactly one note and no chart asset,
\* issues no image request, writes no file and returns normally.
C20_PageFailureOneNote ==
    [][ (pc = "sp_begin" /\ pc' # "sp_loop") =>
          /\ pc' = "sp_return"
          /\ exc' = None
          /\ Len(briefing'.notes) = Len(briefing.notes) + 1
          /\ StartsWith(Last(briefing'.notes),
                        "metoffice_surface_pressure: failed to fetch page: ")
          /\ briefing'.charts = briefing.charts
          /\ briefing'.texts = briefing.texts
          /\ requests' = <<>>
          /\ files' = files ]_vars

C20_Witness ==
    /\ pc = "sp_return"
    /\ requests = <<>>
    /\ briefing.charts = pre.charts
    /\ Len(briefing.charts) = 1
    /\ Len(briefing.notes) = Len(pre.notes) + 1
    /\ Last(briefing.notes) = "metoffice_surface_pressure: failed to fetch page: timed out"

\* the notes of the running SurfacePressureProvider.collect that name chart index k
FailedChartNotes(k) ==
    { j \in NewNotes :
        StartsWith(briefing.notes[j],
            SurfacePressureProvider.name \o ": failed chart " \o ToString(k) \o ": ") }

\* the chart indexes whose image URL the running call resolved and requested
ResolvedIndexes ==
    { k \in 0..SurfacePressureProvider.max_charts - 1 :
        \E j \in 1..Len(requests) : requests[j] = SpImgUrl(k) }

\* C21: for every chart index whose image URL was resolved,
\* SurfacePressureProvider.collect appends exactly one ChartAsset, downloaded
\* or not; a failed download leaves a stub without local_path and exactly one
\* note naming the index, and the remaining indexes are still attempted.
C21_FailedAttemptsRetained ==
    pc \in {"sp_loop", "sp_return"} =>
        /\ \A k \in ResolvedIndexes :
              LET assets == { c \in 1..Len(NewCharts) :
                                NewCharts[c].extras.chart_index = k }
              IN  /\ Cardinality(assets) = 1
                  /\ \A c \in assets :
                        /\ NewCharts[c].original_url = SpImgUrl(k)
                        /\ IF NewCharts[c].local_path = None
                           THEN Cardinality(FailedChartNotes(k)) = 1
                           ELSE FailedChartNotes(k) = {}
        /\ \A c \in 1..Len(NewCharts) :
              NewCharts[c].extras.chart_index \in ResolvedIndexes
        /\ (pc = "sp_return" /\ ResolvedIndexes # {}) =>
              i = SurfacePressureProvider.max_charts

C21_Witness ==
    /\ pc = "sp_return"
    /\ Len(NewCharts) = 2
    /\ NewCharts[1].extras.chart_index = 0
    /\ NewCharts[1].local_path = None
    /\ Cardinality(FailedChartNotes(0)) = 1
    /\ NewCharts[2].extras.chart_index = 1
    /\ NewCharts[2].local_path = SpSavePath(1)

NoChartsNote ==
    SurfacePressureProvider.name
       \o ": no charts downloaded (page structure may have changed)"

\* the running SurfacePressureProvider.collect got past the fetch of the index page
PageFetched ==
    \/ pc = "sp_loop"
    \/ /\ pc = "sp_return"
       /\ \A j \in NewNotes :
             ~StartsWith(briefing.notes[j],
                 SurfacePressureProvider.name \o ": failed to fetch page: ")

\* the assets of the running call that were saved, and those that were not
PersistedCharts == { c \in 1..Len(NewCharts) : NewCharts[c].local_path # None }
StubCharts == { c \in 1..Len(NewCharts) : NewCharts[c].local_path = None }

\* C22: once the index page was fetched, SurfacePressureProvider.collect
\* appends at most max_charts assets, in ascending chart_index order; the
\* "no charts downloaded" note is appended exactly when no image was persisted,
\* and on return the notes appended are one per failed download, plus that
\* note when nothing was persisted.
C22_ChartsBoundedAndNotesCounted ==
    PageFetched =>
        /\ Len(NewCharts) <= SurfacePressureProvider.max_charts
        /\ \A a, b \in 1..Len(NewCharts) :
              a < b => NewCharts[a].extras.chart_index
                          < NewCharts[b].extras.chart_index
        /\ pc = "sp_loop" => \A j \in NewNotes : briefing.notes[j] # NoChartsNote
        /\ pc = "sp_return" =>
              /\ (\E j \in NewNotes : briefing.notes[j] = NoChartsNote)
                    <=> PersistedCharts = {}
              /\ Cardinality(NewNotes) =
                    Cardinality(StubCharts)
                       + (IF PersistedCharts = {} THEN 1 ELSE 0)
              /\ Cardinality(PersistedCharts) = downloaded

C22_Witness ==
    /\ pc = "sp_return"
    /\ PageFetched
    /\ Len(NewCharts) = MaxCharts
    /\ Cardinality(StubCharts) = 1
    /\ Cardinality(PersistedCharts) = MaxCharts - 1
    /\ Cardinality(NewNotes) = 1
    /\ \A j \in NewNotes : briefing.notes[j] # NoChartsNote

\* C23: a MetWebRadarProvider.collect call whose driver was started has exactly
\* one outcome: one radar ChartAsset with a local_path and no note, or one note
\* and no chart asset; before the outcome it has appended nothing.
C23_RadarSingleOutcome ==
    /\ pc = "radar_try" => briefing = pre
    /\ pc \in {"radar_finally", "radar_return"} =>
          /\ briefing.texts = pre.texts
          /\ \/ /\ Len(NewCharts) = 1
                /\ NewCharts[1].kind = "radar"
                /\ NewCharts[1].source = RadarName
                /\ NewCharts[1].local_path # None
                /\ NewCharts[1].local_path \in files
                /\ NewNotes = {}
             \/ /\ NewCharts = <<>>
                /\ Cardinality(NewNotes) = 1
                /\ \/ Last(briefing.notes) = RadarName \o ": radar img src not found"
                   \/ StartsWith(Last(briefing.notes), RadarName \o ": failed: ")

C23_Witness ==
    /\ pc = "radar_return"
    /\ driver = << "start", "use", "quit" >>
    /\ NewCharts = <<>>
    /\ requests = << RadarImgUrl >>
    /\ Last(briefing.notes) = RadarName \o ": failed: " \o WriteError

\* the notes of the running MetIeBriefingProvider.collect that name the chart
ChartNotes(chart) ==
    { j \in NewNotes :
        StartsWith(briefing.notes[j],
            MetieName \o ": " \o chart.display_name \o ": ") }

\* the assets of the running MetIeBriefingProvider.collect for the chart
ChartAssets(chart) ==
    { c \in 1..Len(NewCharts) : NewCharts[c].name = chart.display_name }

\* C24: once the METAR/TAF TextAsset is appended, each of the three charts is
\* attempted whatever became of the earlier ones: every chart ends as one
\* asset or as one note for that chart, and the TextAsset is kept.
C24_EveryChartAttempted ==
    (pc \in {"metie_finally", "metie_return"} /\ NewTexts # <<>>) =>
        /\ Len(NewTexts) = 1
        /\ NewTexts[1].kind = "metar_taf"
        /\ stage = Len(MetieCharts) + 1
        /\ \A c \in 1..Len(MetieCharts) :
              Cardinality(ChartAssets(MetieCharts[c]))
                 + Cardinality(ChartNotes(MetieCharts[c])) = 1

\* the navigations of the running _safe_get that failed
FailedNavs == { k \in 1..Len(sg.navs) : sg.navs[k] # "ok" }

\* C25: _safe_get issues at most `attempts` navigations, returns right after
\* the first navigation that neither raises nor lands on an about:neterror
\* page, and when all `attempts` navigations fail it raises the error of the
\* last one (which collect's handler turns into the failure note).
C25_SafeGetRetries ==
    /\ Len(sg.navs) <= SafeGetAttempts
    /\ \A k \in 1..Len(sg.navs) - 1 : sg.navs[k] # "ok"
    /\ sg.k = Cardinality(FailedNavs)
    /\ (sg.navs # <<>> /\ Last(sg.navs) = "ok") =>
          stage \notin {MsbSafeGet1, MsbSafeGet2}
    /\ (sg.navs # <<>> /\ Last(sg.navs) # "ok") =>
          /\ sg.last_err = Last(sg.navs)
          /\ stage \in {MsbSafeGet1, MsbSafeGet2}
    /\ (pc \in {"msb_finally", "msb_return"}
          /\ stage \in {MsbSafeGet1, MsbSafeGet2}) =>
          /\ Len(sg.navs) = SafeGetAttempts
          /\ FailedNavs = 1..SafeGetAttempts
          /\ Last(briefing.notes) = MsbName \o ": failed: " \o sg.navs[SafeGetAttempts]

C25_Witness ==
    /\ pc = "msb_return"
    /\ stage = MsbSafeGet2
    /\ sg.navs = << "WebDriverException", "WebDriverException",
                    "Firefox error page: about:neterror" >>
    /\ Last(briefing.notes)
          = MsbName \o ": failed: Firefox error page: about:neterror"

\* C26: when login and navigation succeed and the page shows a populated METAR
\* section, MetSelfBriefProvider.collect appends exactly one TextAsset of kind
\* metar_taf whose local_path names the written report file, and no failure note.
C26_TextAssetOnSuccess ==
    (pc \in {"msb_finally", "msb_return"} /\ stage = MsbExtract) =>
        /\ Len(NewTexts) = 1
        /\ NewTexts[1].kind = "metar_taf"
        /\ NewTexts[1].local_path # None
        /\ NewTexts[1].local_path \in files
        /\ NewNotes = {}

====
